---- MODULE Spec2Model ----
(***************************************************************************)
(* Table-checkboxes plugin (src/settings.ts): the token matcher, the       *)
(* identifier generator, the single-checkbox converter, the bulk converter *)
(* and the toggle synchronizer.                                            *)
(*                                                                         *)
(* Text is a sequence of one-character strings.  Positions follow the      *)
(* source: zero-based line and character offsets, end-exclusive ranges.    *)
(***************************************************************************)
EXTENDS Integers, Sequences, FiniteSets, TLC

VARIABLES
  doc,        \* the editor buffer (editor.getDoc().getValue())
  cursor,     \* the editor's cursor, [line, ch] (editor.getCursor("anchor"))
  settings,   \* settings.convertCheckboxesOutsideTables
  runs,       \* number of bulk-conversion commands run so far
  file,       \* the persisted file (vault.read / vault.modify)
  dom,        \* checked state of the rendered <input> element of each id
  handlers,   \* the "change" listeners started so far, one record per event
  lastWriter, \* index of the handler whose vault.modify landed last (0: none)
  last        \* history: what the most recent operation saw and did

vars == <<doc, cursor, settings, runs, file, dom, handlers, lastWriter, last>>

---------------------------------------------------------------------------
(* Bounds *)

MaxLen == 5        \* longest line enumerated character by character
MaxSegs == 3       \* most segments in an enumerated multi-line document
MaxItems == 2      \* most items in an enumerated persisted file
MaxRuns == 2       \* most bulk-conversion commands in one behaviour
MaxEvents == 2     \* most "change" events in one behaviour

(* Program constants *)

WindowLen == 4     \* viewData.slice(ch-4, ...)
IdLen == 6         \* crypto.randomUUID().slice(-6)

---------------------------------------------------------------------------
(* Literal text *)

CtlHead == <<"<", "i", "n", "p", "u", "t", " ", "t", "y", "p", "e", "=", "\"", "c", "h", "e", "c", "k", "b", "o", "x", "\"", " ">>
CtlUn == <<"u", "n">>
CtlMid == <<"c", "h", "e", "c", "k", "e", "d", " ", "i", "d", "=", "\"">>
CtlTail == <<"\"", ">">>

PLACEHOLDER == <<"!", "!", "P", "L", "A", "C", "E", "H", "O", "L", "D", "E", "R", "_", "T", "O", "_", "B", "E", "_", "R", "E", "P", "L", "A", "C", "E", "D", "_", "W", "I", "T", "H", "_", "C", "H", "E", "C", "K", "B", "O", "X", "!", "!">>

\* the outcomes of crypto.randomUUID() the model draws from
Uuid1 == <<"1", "b", "9", "d", "6", "b", "c", "d", "-", "b", "b", "f", "d", "-", "4", "b", "2", "d", "-", "9", "b", "5", "d", "-", "a", "b", "8", "d", "f", "b", "a", "b", "c", "1", "2", "3">>
Uuid2 == <<"7", "c", "1", "a", "3", "f", "0", "e", "-", "5", "2", "d", "4", "-", "4", "e", "6", "a", "-", "8", "f", "3", "b", "-", "9", "0", "c", "2", "d", "1", "d", "e", "f", "4", "5", "6">>
randomUUID == {Uuid1, Uuid2}

Undefined == "undefined"   \* what an out-of-range index reads in the source
Null == <<"null">>         \* "no match"; not a text (texts hold single characters)

---------------------------------------------------------------------------
(* String primitives of the source language *)

Min(a, b) == IF a < b THEN a ELSE b
Max(a, b) == IF a > b THEN a ELSE b

\* s[i], zero-based; undefined outside the string
At(s, i) == IF i >= 0 /\ i < Len(s) THEN s[i + 1] ELSE Undefined

\* String.prototype.slice(a, b): a negative index counts from the end
SliceIndex(s, i) == IF i < 0 THEN Max(Len(s) + i, 0) ELSE Min(i, Len(s))

slice(s, a, b) ==
  LET from == SliceIndex(s, a)
      to == SliceIndex(s, b)
  IN IF from < to THEN SubSeq(s, from + 1, to) ELSE <<>>

endsWith(s, c) == Len(s) > 0 /\ s[Len(s)] = c

\* t occurs in s at zero-based offset i
OccursAt(s, t, i) ==
  /\ i >= 0
  /\ i + Len(t) <= Len(s)
  /\ \A k \in 1..Len(t) : s[i + k] = t[k]

\* String.prototype.indexOf(t); -1 when absent
indexOf(s, t) ==
  LET hits == {i \in 0..(Len(s) - Len(t)) : OccursAt(s, t, i)}
  IN IF hits = {} THEN -1 ELSE CHOOSE i \in hits : \A j \in hits : i <= j

\* the text of s with [from, to) replaced by t
Splice(s, from, to, t) == SubSeq(s, 1, from) \o t \o SubSeq(s, to + 1, Len(s))

\* \s of the regular expressions, over the characters the model uses
isSpace(c) == c \in {" ", "\t"}

RECURSIVE split(_)
\* page.split('\n')
split(page) ==
  LET nl == indexOf(page, <<"\n">>)
  IN IF nl = -1 THEN <<page>>
     ELSE <<SubSeq(page, 1, nl)>> \o split(SubSeq(page, nl + 2, Len(page)))

---------------------------------------------------------------------------
(* Token matcher *)

\* /^(\s|>)*\|.*-\s?(?:\[\s?\]|\[).*/m against one line (no line terminator
\* inside): blanks or '>' up to the first pipe, then somewhere after it a
\* dash, at most one blank, and an opening bracket
isMDCheckboxInTable(rowValue) ==
  \E p \in 1..Len(rowValue) :
    /\ rowValue[p] = "|"
    /\ \A k \in 1..(p - 1) : isSpace(rowValue[k]) \/ rowValue[k] = ">"
    /\ \E d \in (p + 1)..Len(rowValue) :
         /\ rowValue[d] = "-"
         /\ \/ At(rowValue, d) = "["
            \/ isSpace(At(rowValue, d)) /\ At(rowValue, d + 1) = "["

closingBracketIsTooFar(rowValue, ch) ==
  ~(At(rowValue, ch - 1) = "[" \/ At(rowValue, ch - 2) = "[")

\* One attempt of /-\s{0,1}\[\s{0,1}\]?/ (closing = FALSE) or of
\* /-\s{0,1}\[\s{0,1}\]/ (closing = TRUE) at the one-based index p of s:
\* the one-based index of the last matched character, 0 when the attempt fails
checkboxRegex(s, p, closing) ==
  LET open == IF isSpace(At(s, p)) THEN p + 2 ELSE p + 1   \* one-based index of '['
      a == open + 1
  IN IF At(s, p - 1) # "-" \/ At(s, open - 1) # "[" THEN 0
     ELSE IF isSpace(At(s, a - 1))
          THEN IF At(s, a) = "]" THEN a + 1
               ELSE IF closing THEN 0 ELSE a
          ELSE IF At(s, a - 1) = "]" THEN a
               ELSE IF closing THEN 0 ELSE open

\* areaToCheck.match(checkboxRegex): the leftmost match, or null
match(areaToCheck) ==
  LET hits == {p \in 1..Len(areaToCheck) : checkboxRegex(areaToCheck, p, FALSE) # 0}
  IN IF hits = {} THEN Null
     ELSE LET p == CHOOSE q \in hits : \A r \in hits : q <= r
          IN SubSeq(areaToCheck, p, checkboxRegex(areaToCheck, p, FALSE))

\* getCheckboxLength without the extension of the window over a closing
\* bracket under the cursor
getCheckboxLengthFixedWindow(viewData, ch) ==
  match(slice(viewData, ch - WindowLen, ch))

getCheckboxLength(viewData, ch) ==
  LET completeCheckbox == At(viewData, ch) = "]"
      areaToCheck == slice(viewData, ch - WindowLen, IF completeCheckbox THEN ch + 1 ELSE ch)
  IN match(areaToCheck)

RECURSIVE exec(_, _)
\* the loop "while ((match = checkboxRegex.exec(line)) !== null)" from
\* lastIndex (zero-based): the [from, to) character ranges of the matches
exec(line, lastIndex) ==
  LET hits == {p \in (lastIndex + 1)..Len(line) : checkboxRegex(line, p, TRUE) # 0}
  IN IF hits = {} THEN <<>>
     ELSE LET p == CHOOSE q \in hits : \A r \in hits : q <= r
              e == checkboxRegex(line, p, TRUE)
          IN <<[from |-> p - 1, to |-> e]>> \o exec(line, e)

---------------------------------------------------------------------------
(* The rendered control and the identifier generator *)

\* `<input type="checkbox" ${isChecked ? "" : "un"}checked id="${checkboxId}">`
Control(isChecked, checkboxId) ==
  CtlHead \o (IF isChecked THEN <<>> ELSE CtlUn) \o CtlMid \o checkboxId \o CtlTail

\* page.search(id) !== -1; the generator's identifiers hold only hex digits
\* and dashes, which the pattern reads literally
idExistsInFile(id, page) == indexOf(page, id) # -1

\* the identifiers generateUniqueCheckboxId(page) can return: the last six
\* characters of a random UUID, or, when that one occurs in the page, any
\* whole random UUID that does not
generateUniqueCheckboxId(page) ==
  LET short == {slice(u, 0 - IdLen, Len(u)) : u \in randomUUID}
  IN {id \in short : ~idExistsInFile(id, page)}
     \cup (IF \E id \in short : idExistsInFile(id, page)
           THEN {u \in randomUUID : ~idExistsInFile(u, page)}
           ELSE {})

---------------------------------------------------------------------------
(* The host editor *)

getLine(d, n) == split(d)[n + 1]

lineCount(d) == Len(split(d))

RECURSIVE lineOffset(_, _)
lineOffset(lines, n) ==
  IF n = 0 THEN 0 ELSE lineOffset(lines, n - 1) + Len(lines[n]) + 1

\* offset of the first character of line n
lineStart(d, n) == lineOffset(split(d), n)

\* the editor clips a position to its line
posToOffset(d, pos) ==
  lineStart(d, pos.line) + Max(0, Min(pos.ch, Len(getLine(d, pos.line))))

---------------------------------------------------------------------------
(* History of the most recent operation *)

NoLast ==
  [op |-> "none", line |-> 0, row |-> <<>>, ch |-> 0, data |-> "", active |-> FALSE,
   match |-> Null, replaced |-> <<>>, ids |-> <<>>, spans |-> <<>>,
   before |-> <<>>, flag |-> FALSE, done |-> FALSE]

---------------------------------------------------------------------------
(* Single-checkbox converter *)

\* editor.setSelection(start, location) and editor.replaceSelection(control):
\* the buffer and cursor afterwards, and the text that was selected
handleCheckboxReplacement(d, location, checkbox, checkboxId) ==
  LET completeCheckbox == endsWith(checkbox, "]")
      endCh == IF completeCheckbox THEN location.ch + 1 ELSE location.ch
      start == [line |-> location.line, ch |-> endCh - Len(checkbox)]
      end == [line |-> location.line, ch |-> endCh]
      a == posToOffset(d, start)
      b == posToOffset(d, end)
      from == Min(a, b)
      to == Max(a, b)
      text == Control(FALSE, checkboxId)
  IN [doc |-> Splice(d, from, to, text),
      cursor |-> [line |-> location.line, ch |-> from - lineStart(d, location.line) + Len(text)],
      replaced |-> SubSeq(d, from + 1, to)]

\* the "input" listener; data is evt.data, active says whether
\* workspace.activeEditor has an editor
InputEvent(data, active) ==
  LET location == cursor
      rowValue == getLine(doc, location.line)
      seen == [NoLast EXCEPT !.op = "input", !.line = location.line, !.row = rowValue,
                             !.ch = location.ch, !.data = data, !.active = active,
                             !.before = doc]
      checkbox == getCheckboxLength(rowValue, location.ch)
  IN /\ IF \/ data # "]"
           \/ ~active
           \/ ~isMDCheckboxInTable(rowValue)
           \/ closingBracketIsTooFar(rowValue, location.ch)
           \/ checkbox = Null
        THEN /\ last' = seen
             /\ UNCHANGED <<doc, cursor>>
        ELSE \E checkboxId \in generateUniqueCheckboxId(doc) :
               LET r == handleCheckboxReplacement(doc, location, checkbox, checkboxId)
               IN /\ doc' = r.doc
                  /\ cursor' = r.cursor
                  /\ last' = [seen EXCEPT !.match = checkbox, !.replaced = r.replaced,
                                          !.ids = <<checkboxId>>, !.done = TRUE]
     /\ UNCHANGED <<settings, runs, file, dom, handlers, lastWriter>>

\* extractCheckboxSpan on its own: getCheckboxLength applied to the cursor's
\* line and offset
ExtractCheckboxSpan ==
  LET rowValue == getLine(doc, cursor.line)
  IN /\ last' = [NoLast EXCEPT !.op = "extract", !.line = cursor.line, !.row = rowValue,
                               !.ch = cursor.ch, !.before = doc,
                               !.match = getCheckboxLength(rowValue, cursor.ch)]
     /\ UNCHANGED <<doc, cursor, settings, runs, file, dom, handlers, lastWriter>>

---------------------------------------------------------------------------
(* Inputs of the single-checkbox converter *)

Chars == {"|", " ", "-", "[", "]", "x"}

RowExample == <<"|", " ", "a", " ", "|", " ", "-", " ", "[", " ", "]", " ", "|">>
RowInProgress == <<"|", " ", "a", " ", "|", " ", "-", " ", "[", "|">>
RowNoBracket == <<"s", "o", "m", "e", " ", "t", "e", "x", "t", " ", "]", " ", "m", "o", "r", "e">>
RowQuoted == <<">", " ", "|", "x", "|", "-", "[", " ", "]">>
RowTabbed == <<"\t", "|", "-", " ", "[", "]", "|">>
RowAfterControl == Control(FALSE, slice(Uuid1, 0 - IdLen, Len(Uuid1))) \o <<"|", "-", "[", "]">>
TwoRows == <<"x", "\n">> \o RowExample

ExampleLines == {RowExample, RowInProgress, RowNoBracket, RowQuoted, RowTabbed, RowAfterControl, TwoRows}

Lines == UNION {[1..n -> Chars] : n \in 0..MaxLen} \cup ExampleLines

\* the toggle synchronizer's variables when it is not part of the run
NoToggle ==
  /\ file = <<>>
  /\ dom = <<>>
  /\ handlers = <<>>
  /\ lastWriter = 0

InitInput ==
  /\ doc \in Lines
  /\ \E l \in 0..(lineCount(doc) - 1) :
       \E c \in 0..Len(getLine(doc, l)) : cursor = [line |-> l, ch |-> c]
  /\ settings = FALSE
  /\ runs = 0
  /\ NoToggle
  /\ last = NoLast

NextInput == \E data \in {"]", "x"}, active \in BOOLEAN : InputEvent(data, active)

SpecInput == InitInput /\ [][NextInput]_vars

NextMatcher == ExtractCheckboxSpan

SpecMatcher == InitInput /\ [][NextMatcher]_vars

---------------------------------------------------------------------------
(* Bulk converter *)

RECURSIVE scanLines(_, _, _)
\* the loop over lines[i], i zero-based; lineCount equals i throughout
scanLines(lines, i, convertOutsideTables) ==
  IF i >= Len(lines) THEN <<>>
  ELSE LET line == lines[i + 1]
           found == exec(line, 0)
           here == IF ~convertOutsideTables /\ ~isMDCheckboxInTable(line) THEN <<>>
                   ELSE [k \in 1..Len(found) |->
                           [from |-> [line |-> i, ch |-> found[k].from],
                            to |-> [line |-> i, ch |-> found[k].to]]]
       IN here \o scanLines(lines, i + 1, convertOutsideTables)

\* getCheckboxesToConvert that converts outside tables whatever the setting
getCheckboxesToConvertEverywhere(page, convertOutsideTables) ==
  scanLines(split(page), 0, TRUE)

getCheckboxesToConvert(page, convertOutsideTables) ==
  scanLines(split(page), 0, convertOutsideTables)

RECURSIVE replaceSelection(_, _, _)
\* editor.replaceSelection(text) with the selections sels, [from, to) offsets
\* in document order: every selection is replaced by text
replaceSelection(d, sels, text) ==
  IF sels = <<>> THEN d
  ELSE LET s == sels[Len(sels)]
       IN replaceSelection(Splice(d, s.from, s.to, text), SubSeq(sels, 1, Len(sels) - 1), text)

\* page.replace(/pattern/, replacement) for a pattern of literal characters
replaceFirst(page, pattern, replacement) ==
  LET i == indexOf(page, pattern)
  IN IF i = -1 THEN page ELSE Splice(page, i, i + Len(pattern), replacement)

RECURSIVE substitute(_, _)
\* checkboxIds.forEach: each identifier takes the first placeholder left
substitute(page, checkboxIds) ==
  IF checkboxIds = <<>> THEN page
  ELSE substitute(replaceFirst(page, PLACEHOLDER, Control(FALSE, Head(checkboxIds))),
                  Tail(checkboxIds))

\* the buffer convertCheckboxes leaves, given the selections in force when
\* replaceSelection runs
convertCheckboxes(d, sels, checkboxIds) ==
  substitute(replaceSelection(d, sels, PLACEHOLDER), checkboxIds)

\* the command "convert-checkboxes".  active: workspace.activeEditor has an
\* editor.  rejectsEmpty: what the host's editor.setSelections does with an
\* empty list, which the source passes when no span was recorded: it throws
\* (the command ends there) or it returns and leaves the selection alone.
convertAllCheckboxes(active, rejectsEmpty) ==
  /\ runs < MaxRuns
  /\ runs' = runs + 1
  /\ LET page == doc
         checkboxes == getCheckboxesToConvert(page, settings)
         seen == [NoLast EXCEPT !.op = "bulk", !.active = active, !.before = doc,
                                !.flag = settings, !.line = cursor.line, !.ch = cursor.ch]
     IN IF ~active
        THEN /\ last' = seen
             /\ UNCHANGED <<doc, cursor>>
        ELSE \E checkboxIds \in [1..Len(checkboxes) -> generateUniqueCheckboxId(doc)] :
               LET given == [k \in 1..Len(checkboxes) |->
                               [from |-> posToOffset(doc, checkboxes[k].from),
                                to |-> posToOffset(doc, checkboxes[k].to)]]
                   kept == <<[from |-> posToOffset(doc, cursor), to |-> posToOffset(doc, cursor)]>>
               IN IF checkboxes = <<>> /\ rejectsEmpty
                  THEN /\ last' = [seen EXCEPT !.spans = checkboxes]
                       /\ UNCHANGED <<doc, cursor>>
                  ELSE /\ doc' = convertCheckboxes(doc, IF checkboxes = <<>> THEN kept ELSE given,
                                                   checkboxIds)
                       /\ cursor' = [line |-> 0, ch |-> 0]
                       /\ last' = [seen EXCEPT !.spans = checkboxes, !.ids = checkboxIds,
                                               !.done = TRUE]
  /\ UNCHANGED <<settings, file, dom, handlers, lastWriter>>

\* the settings tab's toggle: onChange(value)
SetConvertOutsideTables(value) ==
  /\ settings # value
  /\ settings' = value
  /\ UNCHANGED <<doc, cursor, runs, file, dom, handlers, lastWriter, last>>

---------------------------------------------------------------------------
(* Inputs of the bulk converter *)

Segments == {<<"|">>, <<"\n">>, <<"x">>, <<"-", "[", "]">>}

RECURSIVE Concat(_)
Concat(ss) == IF ss = <<>> THEN <<>> ELSE Head(ss) \o Concat(Tail(ss))

ShortId1 == slice(Uuid1, 0 - IdLen, Len(Uuid1))
ShortId2 == slice(Uuid2, 0 - IdLen, Len(Uuid2))

ExampleDocs ==
  { <<"|", "-", "[", " ", "]", "|", "-", " ", "[", "]">>,
    <<"|", "-", "[", "]", "\n", "-", "[", "]">>,
    <<"x", "-", "[", "]", "\n", "|", "x", "|", "-", " ", "[", " ", "]">>,
    <<"-", "[", " ", "]", "\n", "-", " ", "[", "]">>,
    <<">", " ", "|", "-", "[", "]", "\n", "\t", "|", "-", "[", "]", "\n", "-", "[">>,
    <<"|", "-", "[", "]", "|", "-", "[", "]", "|", "-", "[", "]">>,
    PLACEHOLDER \o <<"\n", "|", "-", "[", "]">>,
    <<"|">> \o PLACEHOLDER \o <<"-", "[", "]">>,
    Control(FALSE, ShortId1) \o <<"|", "-", "[", "]">>,
    Control(TRUE, ShortId1) \o <<"\n">> \o Control(FALSE, ShortId2) \o <<"|", "-", "[", "]", "-", "[", "]">> }

BulkDocs ==
  {Concat(ss) : ss \in UNION {[1..n -> Segments] : n \in 0..MaxSegs}} \cup ExampleDocs

InitBulk ==
  /\ doc \in BulkDocs
  /\ \E l \in 0..(lineCount(doc) - 1) :
       \E c \in 0..Len(getLine(doc, l)) : cursor = [line |-> l, ch |-> c]
  /\ settings \in BOOLEAN
  /\ runs = 0
  /\ NoToggle
  /\ last = NoLast

NextBulk ==
  \/ \E active \in BOOLEAN, rejectsEmpty \in BOOLEAN : convertAllCheckboxes(active, rejectsEmpty)
  \/ \E value \in BOOLEAN : SetConvertOutsideTables(value)

SpecBulk == InitBulk /\ [][NextBulk]_vars

---------------------------------------------------------------------------
(* Toggle synchronizer *)

\* new RegExp(checkboxId) against the text at offset i: the identifier is read
\* as a pattern, in which "." stands for any character but a line terminator
\* (the identifiers of the model hold letters, digits, dashes and dots)
idPatternAt(page, checkboxId, i) ==
  /\ i + Len(checkboxId) <= Len(page)
  /\ \A k \in 1..Len(checkboxId) :
       IF checkboxId[k] = "." THEN page[i + k] # "\n" ELSE page[i + k] = checkboxId[k]

\* length of the match of /<input type="checkbox" (un)?checked id="ID">/ at
\* offset i of page, 0 when there is none
controlRegexAt(page, checkboxId, i) ==
  LET tryWith(state) ==
        LET open == CtlHead \o state \o CtlMid
            n == Len(open) + Len(checkboxId)
        IN IF /\ OccursAt(page, open, i)
              /\ idPatternAt(page, checkboxId, i + Len(open))
              /\ OccursAt(page, CtlTail, i + n)
           THEN n + Len(CtlTail) ELSE 0
  IN IF tryWith(CtlUn) # 0 THEN tryWith(CtlUn) ELSE tryWith(<<>>)

\* the page toggleCheckbox passes to vault.modify
toggleCheckbox(page, isChecked, checkboxId) ==
  LET hits == {i \in 0..Len(page) : controlRegexAt(page, checkboxId, i) # 0}
  IN IF hits = {} THEN page
     ELSE LET i == CHOOSE j \in hits : \A k \in hits : j <= k
          IN Splice(page, i, i + controlRegexAt(page, checkboxId, i), Control(isChecked, checkboxId))

\* a "change" event on the <input> element with the given id.  eligible: the
\* target is an HTMLInputElement of type checkbox without data-task; active:
\* workspace.activeEditor has an editor and a file.  The listener then awaits
\* vault.read.
ChangeEvent(id, eligible, active) ==
  /\ Len(handlers) < MaxEvents
  /\ dom' = [dom EXCEPT ![id] = ~dom[id]]
  /\ handlers' = IF eligible /\ active
                 THEN Append(handlers, [pc |-> "reading", id |-> id, read |-> <<>>,
                                        page |-> <<>>, checked |-> FALSE])
                 ELSE Append(handlers, [pc |-> "ignored", id |-> id, read |-> <<>>,
                                        page |-> <<>>, checked |-> FALSE])
  /\ UNCHANGED <<doc, cursor, settings, runs, file, lastWriter, last>>

\* vault.read resolves: the listener reads changeEl.checked and calls
\* toggleCheckbox, which starts vault.modify and does not await it
ReadDone(h) ==
  /\ handlers[h].pc = "reading"
  /\ LET page == file
         isChecked == dom[handlers[h].id]
     IN handlers' = [handlers EXCEPT ![h] =
                       [pc |-> "writing", id |-> handlers[h].id, read |-> page,
                        page |-> toggleCheckbox(page, isChecked, handlers[h].id),
                        checked |-> isChecked]]
  /\ UNCHANGED <<doc, cursor, settings, runs, file, dom, lastWriter, last>>

\* a write that applies the toggle to the file as it is when the write lands
WriteLandRebased(h) ==
  /\ handlers[h].pc = "writing"
  /\ file' = toggleCheckbox(file, handlers[h].checked, handlers[h].id)
  /\ handlers' = [handlers EXCEPT ![h].pc = "done"]
  /\ lastWriter' = h
  /\ UNCHANGED <<doc, cursor, settings, runs, dom, last>>

\* vault.modify(file, page) lands
WriteLand(h) ==
  /\ handlers[h].pc = "writing"
  /\ file' = handlers[h].page
  /\ handlers' = [handlers EXCEPT ![h].pc = "done"]
  /\ lastWriter' = h
  /\ UNCHANGED <<doc, cursor, settings, runs, dom, last>>

---------------------------------------------------------------------------
(* Inputs of the toggle synchronizer *)

DottedId == <<"a", "b", "c", "1", "2", ".">>

ToggleIds == {ShortId1, ShortId2, DottedId}

\* the converters write unchecked controls; checked ones come from toggles
Items == {Control(FALSE, id) : id \in ToggleIds} \cup {<<"|">>}

Files == {Concat(ss) : ss \in UNION {[1..n -> Items] : n \in 0..MaxItems}}

\* "checked", "unchecked": the state of the first control of page that carries
\* the identifier id, character for character; "absent" when there is none
StateIn(page, id) ==
  LET c == indexOf(page, Control(TRUE, id))
      u == indexOf(page, Control(FALSE, id))
  IN IF c = -1 /\ u = -1 THEN "absent"
     ELSE IF u = -1 \/ (c # -1 /\ c < u) THEN "checked" ELSE "unchecked"

InitToggle ==
  /\ doc = <<>>
  /\ cursor = [line |-> 0, ch |-> 0]
  /\ settings = FALSE
  /\ runs = 0
  /\ last = NoLast
  /\ file \in Files
  /\ dom = [id \in ToggleIds |-> FALSE]
  /\ handlers = <<>>
  /\ lastWriter = 0

NextToggle ==
  \/ \E id \in ToggleIds, eligible \in BOOLEAN, active \in BOOLEAN : ChangeEvent(id, eligible, active)
  \/ \E h \in 1..Len(handlers) : ReadDone(h)
  \/ \E h \in 1..Len(handlers) : WriteLand(h)

SpecToggle == InitToggle /\ [][NextToggle]_vars

---------------------------------------------------------------------------
(* Properties of the single-checkbox converter *)

TokenShapes ==
  {<<"-", " ", "[", " ", "]">>, <<"-", "[", " ", "]">>, <<"-", " ", "[", "]">>, <<"-", "[", "]">>}

\* optional blanks or '>' characters, then a pipe
TableRow(row) ==
  \E p \in 1..Len(row) :
    row[p] = "|" /\ \A k \in 1..(p - 1) : isSpace(row[k]) \/ row[k] = ">"

\* a token of one of the four shapes at offset p of row, behind a pipe, with
\* the cursor ch on its closing bracket
TokenUnderCursor(row, ch, shape, p) ==
  /\ OccursAt(row, shape, p)
  /\ \E q \in 0..(p - 1) : At(row, q) = "|"
  /\ ch = p + Len(shape) - 1

\* C3: for every table-row line and each of the four token shapes behind a
\* pipe, a "]" input event with the cursor on the token's closing bracket
\* replaces the token by the unchecked control.
C3_TokenUnderCursorConverted ==
  (last.op = "input" /\ last.data = "]" /\ last.active /\ TableRow(last.row))
    => \A shape \in TokenShapes : \A p \in 0..Len(last.row) :
         TokenUnderCursor(last.row, last.ch, shape, p)
           => /\ last.done
              /\ getLine(doc, last.line)
                   = Splice(last.row, p, p + Len(shape), Control(FALSE, last.ids[1]))

C9_ReplacedIsMatched ==
  (last.op = "input" /\ last.done)
    => /\ last.replaced = last.match
       /\ \E p \in 0..Len(last.row) :
            /\ OccursAt(last.row, last.match, p)
            /\ getLine(doc, last.line)
                 = Splice(last.row, p, p + Len(last.match), Control(FALSE, last.ids[1]))

---------------------------------------------------------------------------
(* Properties of the bulk converter *)

\* C1: a bulk conversion with N recorded spans issues N identifiers that are
\* pairwise distinct, none of which occurs in the document as it stood before.
C1_BatchIdsUnique ==
  (last.op = "bulk" /\ last.done)
    => /\ Len(last.ids) = Len(last.spans)
       /\ \A i, j \in 1..Len(last.ids) : i # j => last.ids[i] # last.ids[j]
       /\ \A i \in 1..Len(last.ids) : indexOf(last.before, last.ids[i]) = -1

\* the span of a token of the given shape at offset p of line i
SpanOf(i, p, shape) ==
  [from |-> [line |-> i, ch |-> p], to |-> [line |-> i, ch |-> p + Len(shape)]]

\* the tokens of the four shapes in page, as [line, ch, shape] records
TokensOf(page) ==
  LET lines == split(page)
  IN {t \in [line : 0..(Len(lines) - 1), ch : 0..Len(page), shape : TokenShapes] :
        OccursAt(lines[t.line + 1], t.shape, t.ch)}

C6_NoSpansNoChange ==
  (last.op = "bulk" /\ last.active /\ getCheckboxesToConvert(last.before, last.flag) = <<>>)
    => doc = last.before

RECURSIVE Expected(_, _, _)
\* page with the k-th span replaced by the unchecked control of the k-th identifier
Expected(page, spans, ids) ==
  IF spans = <<>> THEN page
  ELSE LET n == Len(spans)
       IN Expected(Splice(page, posToOffset(page, spans[n].from), posToOffset(page, spans[n].to),
                          Control(FALSE, ids[n])),
                   SubSeq(spans, 1, n - 1), SubSeq(ids, 1, n - 1))

\* C10: a bulk conversion with N recorded spans produces the original document
\* with the k-th recorded span replaced by the unchecked control of the k-th
\* identifier, for all k in 1..N, and everything else, placeholder text
\* included, unchanged.  (A run that records no span is the case of C6.)
C10_SpansReplacedInOrder ==
  (last.op = "bulk" /\ last.done /\ last.spans # <<>>)
    => doc = Expected(last.before, last.spans, last.ids)

---------------------------------------------------------------------------
(* Properties of the toggle synchronizer *)

\* offset of the first control of page that carries the identifier id,
\* character for character (-1: none)
FirstControl(page, id) ==
  LET c == indexOf(page, Control(TRUE, id))
      u == indexOf(page, Control(FALSE, id))
  IN IF c = -1 THEN u ELSE IF u = -1 THEN c ELSE Min(c, u)

\* C2: a toggle for identifier X with new state s, on a document holding
\* controls with identifiers X and Y (X # Y), writes the document in which the
\* first control carrying X has state s and every other character is unchanged.
C2_ToggleRewritesOnlyItsControl ==
  \A h \in 1..Len(handlers) :
    LET X == handlers[h].id
        P == handlers[h].read
        i == FirstControl(P, X)
        old == Control(StateIn(P, X) = "checked", X)
    IN (/\ handlers[h].pc \in {"writing", "done"}
        /\ StateIn(P, X) # "absent"
        /\ \E Y \in ToggleIds \ {X} : StateIn(P, Y) # "absent")
         => handlers[h].page = Splice(P, i, i + Len(old), Control(handlers[h].checked, X))

\* C7: a toggle event whose identifier has no rendered control in the
\* persisted document performs no write: vault.modify is not called.
C7_NoControlNoWrite ==
  \A h \in 1..Len(handlers) :
    handlers[h].pc \in {"writing", "done"} => StateIn(handlers[h].read, handlers[h].id) # "absent"

\* handler h toggles a control that the page it read holds, to a state other
\* than the one the page records, and its identifier has no pattern character
Effective(h) ==
  /\ handlers[h].pc = "done"
  /\ \A k \in 1..Len(handlers[h].id) : handlers[h].id[k] # "."
  /\ StateIn(handlers[h].read, handlers[h].id) # "absent"
  /\ StateIn(handlers[h].read, handlers[h].id)
       # (IF handlers[h].checked THEN "checked" ELSE "unchecked")

\* h1 and h2 toggled different controls of the same page, each of them having
\* read it before the write of the other landed, and h2's write landed last
StaleRead(h1, h2) ==
  /\ h1 # h2
  /\ Effective(h1) /\ Effective(h2)
  /\ handlers[h1].id # handlers[h2].id
  /\ handlers[h1].read = handlers[h2].read
  /\ lastWriter = h2

\* C8: the toggle is a read-then-write that is not atomic: when a handler read
\* the persisted document before the write of another handler landed and its
\* own write lands last, the persisted document does not reflect the other
\* handler's toggle (that control's state is not its toggled state).
C8_StaleWriteLosesToggle ==
  \A h1, h2 \in 1..Len(handlers) :
    StaleRead(h1, h2)
      => StateIn(file, handlers[h1].id)
           # (IF handlers[h1].checked THEN "checked" ELSE "unchecked")

\* two toggles only, both writes landed, and one toggle is lost
C8_Witness ==
  /\ Len(handlers) = 2
  /\ \E h1, h2 \in 1..Len(handlers) :
       /\ StaleRead(h1, h2)
       /\ dom[handlers[h1].id] = handlers[h1].checked
       /\ StateIn(file, handlers[h1].id)
            # (IF dom[handlers[h1].id] THEN "checked" ELSE "unchecked")

====
